---------------------------- MODULE Spec2Model ----------------------------
(***************************************************************************)
(* Event / Booking schemas with their pre-save hooks and the Mongoose      *)
(* connection cache of dev-events-nextjs.                                  *)
(*                                                                         *)
(* Strings are sequences of one-character strings, so that slugify and the *)
(* time parser are computed character by character as the code does.       *)
(* A missing (undefined) string field and the empty string are both <<>>:  *)
(* the schema's `required` rejects the two alike and the hook reads        *)
(* `doc.title || ""`.                                                      *)
(***************************************************************************)
EXTENDS Integers, Sequences, FiniteSets, TLC

(* ------------------------------ bounds -------------------------------- *)
\* Event documents constructed (new Event(...)) in one behaviour.
MaxDocs == 2
\* Caller operations on Event documents besides construction and save
\* (load, set title, delete) in one behaviour.
MaxOps == 2
\* Booking documents constructed in one behaviour.
MaxBookings == 2
\* connectToDatabase() calls made in one behaviour.
MaxCalls == 4

EProcs == {"e1", "e2"}
BProcs == {"b1", "b2"}
Callers == {"c1", "c2", "c3"}

(* --------------------------- characters ------------------------------- *)
Uppers == <<"A","B","C","D","E","F","G","H","I","J","K","L","M",
            "N","O","P","Q","R","S","T","U","V","W","X","Y","Z">>
Lowers == <<"a","b","c","d","e","f","g","h","i","j","k","l","m",
            "n","o","p","q","r","s","t","u","v","w","x","y","z">>
DigitChars == <<"0","1","2","3","4","5","6","7","8","9">>

AlphaRange == 1..26
DigitRange == 1..10

LowerSet == {Lowers[k] : k \in AlphaRange}
UpperSet == {Uppers[k] : k \in AlphaRange}
DigitSet == {DigitChars[k] : k \in DigitRange}
\* \s of a JavaScript regular expression, and what String.prototype.trim strips
WhiteSpace == {" ", "\t", "\n"}

\* String.prototype.toLowerCase on one character
LowerChar(c) ==
  IF c \in UpperSet THEN Lowers[CHOOSE k \in AlphaRange : Uppers[k] = c] ELSE c

\* String.prototype.toUpperCase on one character
UpperChar(c) ==
  IF c \in LowerSet THEN Uppers[CHOOSE k \in AlphaRange : Lowers[k] = c] ELSE c

toLowerCase(s) == [k \in 1..Len(s) |-> LowerChar(s[k])]
toUpperCase(s) == [k \in 1..Len(s) |-> UpperChar(s[k])]

RECURSIVE trimStart(_)
trimStart(s) ==
  IF s # <<>> /\ Head(s) \in WhiteSpace THEN trimStart(Tail(s)) ELSE s

RECURSIVE trimEnd(_)
trimEnd(s) ==
  IF s # <<>> /\ s[Len(s)] \in WhiteSpace
  THEN trimEnd(SubSeq(s, 1, Len(s) - 1)) ELSE s

\* String.prototype.trim
trim(s) == trimEnd(trimStart(s))

\* the leading characters of s that are in S, dropped
RECURSIVE DropRun(_, _)
DropRun(s, S) ==
  IF s # <<>> /\ Head(s) \in S THEN DropRun(Tail(s), S) ELSE s

\* replace(/[S]+/g, "-"): every maximal run of characters of S becomes one "-"
RECURSIVE ReplaceRuns(_, _)
ReplaceRuns(s, S) ==
  IF s = <<>> THEN <<>>
  ELSE IF Head(s) \in S THEN <<"-">> \o ReplaceRuns(DropRun(Tail(s), S), S)
  ELSE <<Head(s)>> \o ReplaceRuns(Tail(s), S)

\* the characters /[^a-z0-9\-\s]/g does not strip
SlugKeep == LowerSet \cup DigitSet \cup {"-"} \cup WhiteSpace

StripOther(s) == SelectSeq(s, LAMBDA c : c \in SlugKeep)

\* slugify: trim, lowercase, strip, whitespace runs to "-", hyphen runs to "-"
slugify(value) ==
  ReplaceRuns(ReplaceRuns(StripOther(toLowerCase(trim(value))), WhiteSpace), {"-"})

\* String(n) of a non-negative integer
RECURSIVE NumToStr(_)
NumToStr(n) ==
  IF n < 10 THEN <<DigitChars[n + 1]>>
  ELSE NumToStr(n \div 10) \o <<DigitChars[(n % 10) + 1]>>

\* Number(s) of a string of decimal digits
RECURSIVE StrToNum(_)
StrToNum(s) ==
  IF s = <<>> THEN 0
  ELSE 10 * StrToNum(SubSeq(s, 1, Len(s) - 1))
       + ((CHOOSE k \in DigitRange : DigitChars[k] = s[Len(s)]) - 1)

AllDigits(s) == \A k \in 1..Len(s) : s[k] \in DigitSet

\* String.prototype.padStart(2, "0")
padStart2(s) == IF Len(s) < 2 THEN <<"0">> \o s ELSE s

(* ------------------------- time normalization ------------------------- *)
\* The matches of /^(\d{1,2})(?:[:\.](\d{2}))?(?:\s*(AM|PM))?$/i on t, as
\* records of the three capture groups (<<>> for a group that did not take
\* part).  The pattern is unambiguous: there is at most one.
TimeMatches(t) ==
  { [h |-> SubSeq(t, 1, hl),
     m |-> IF ml = 0 THEN <<>> ELSE SubSeq(t, hl + 2, hl + 3),
     mer |-> IF al = 0 THEN <<>> ELSE SubSeq(t, Len(t) - 1, Len(t))] :
      <<hl, ml, al>> \in
        { x \in {1, 2} \X {0, 3} \X {0, 2} :
            /\ x[1] + x[2] + x[3] <= Len(t)
            /\ AllDigits(SubSeq(t, 1, x[1]))
            /\ x[2] = 3 =>
                 /\ t[x[1] + 1] \in {":", "."}
                 /\ AllDigits(SubSeq(t, x[1] + 2, x[1] + 3))
            /\ x[3] = 2 =>
                 /\ toUpperCase(SubSeq(t, Len(t) - 1, Len(t)))
                      \in {<<"A", "M">>, <<"P", "M">>}
                 /\ \A k \in (x[1] + x[2] + 1)..(Len(t) - 2) : t[k] \in WhiteSpace
            /\ x[3] = 0 => x[1] + x[2] = Len(t) } }

HoursOf_NoPM(h, mer) ==
  IF toUpperCase(mer) = <<"A", "M">> /\ h = 12 THEN 0 ELSE h

\* hours after the meridiem adjustment of the hook
HoursOf(h, mer) ==
  IF toUpperCase(mer) = <<"P", "M">> /\ h < 12 THEN h + 12
  ELSE IF toUpperCase(mer) = <<"A", "M">> /\ h = 12 THEN 0
  ELSE h

\* The time block of the pre-save hook on the raw field value: the stored
\* HH:MM, or a rejection.
NormalizeTime(raw) ==
  LET t == trim(raw)
      ms == TimeMatches(t)
  IN IF ms = {} THEN [ok |-> FALSE, value |-> raw]
     ELSE LET m == CHOOSE x \in ms : TRUE
              hours == HoursOf(StrToNum(m.h), m.mer)
              minutes == IF m.m # <<>> THEN StrToNum(m.m) ELSE 0
          IN IF hours < 0 \/ hours > 23 \/ minutes < 0 \/ minutes > 59
             THEN [ok |-> FALSE, value |-> raw]
             ELSE [ok |-> TRUE,
                   value |-> padStart2(NumToStr(hours)) \o <<":">>
                             \o padStart2(NumToStr(minutes))]

(* ------------------------------ state --------------------------------- *)
VARIABLES
  \* the Event collection: persisted _id -> [title, slug, date, time]
  events,
  \* ObjectIds handed to constructed Event documents so far
  nextId,
  \* caller operations spent (load, set title, delete)
  ops,
  \* per Event caller: the in-memory document and where its save() stands
  doc, epc,
  \* the locals of the pre-save hook's slug loop
  base, candidate, i,
  \* the outcome of the caller's last save(): the error it rejected with
  err,
  \* the time value the caller last gave the document, in its parts
  timeIn,
  \* the Booking collection, and the Booking ids handed out so far
  bookings, nextBid,
  \* per Booking caller: document, position in save(), the hook's `exists`
  bdoc, bpc, exists, berr,
  \* global._mongooseCache and the connect attempts made
  conn, promise, attempts,
  \* per connectToDatabase() caller: position, value returned, calls made
  cpc, cres, calls

evars == <<events, nextId, ops, doc, epc, base, candidate, i, err, timeIn>>
bvars == <<bookings, nextBid, bdoc, bpc, exists, berr>>
cvars == <<conn, promise, attempts, cpc, cres, calls>>
vars == <<events, nextId, ops, doc, epc, base, candidate, i, err, timeIn,
          bookings, nextBid, bdoc, bpc, exists, berr,
          conn, promise, attempts, cpc, cres, calls>>

(* --------------------------- Event inputs ----------------------------- *)
\* new Date(s).toISOString().slice(0, 10) for the date strings callers pass;
\* "" stands for a string Date cannot parse (getTime() is NaN).
ParseDate(s) ==
  CASE s = "2025-03-04T10:00:00Z" -> "2025-03-04"
    [] s = "2025-03-04" -> "2025-03-04"
    [] OTHER -> ""

TitleLower == <<"a">>
TitleUpper == <<"A">>
TitleTrail == <<"a", " ", "!">>
TitlePunct == <<"!">>
Titles == {TitleLower, TitleUpper, TitleTrail, TitlePunct}

\* A time value as a caller writes it: padding, hour digits (hv their
\* value), separator with minute digits (mv their value), meridiem suffix
\* (am, pm or none; bad when it is none of them), padding.
TimeArg(pre, h, hv, m, mv, s, mer, post) ==
  [pre |-> pre, h |-> h, hv |-> hv, m |-> m, mv |-> mv, s |-> s, mer |-> mer,
   post |-> post]

\* the string the caller passes
RawTime(ta) == ta.pre \o ta.h \o ta.m \o ta.s \o ta.post

NoTimeArg == TimeArg(<<>>, <<>>, -1, <<>>, -1, <<>>, "bad", <<>>)
Time930AM == TimeArg(<<>>, <<"9">>, 9, <<":", "3", "0">>, 30, <<" ", "A", "M">>, "am", <<>>)
Time2105 == TimeArg(<<>>, <<"2", "1">>, 21, <<":", "0", "5">>, 5, <<>>, "none", <<>>)
Time25 == TimeArg(<<>>, <<"2", "5">>, 25, <<":", "0", "0">>, 0, <<>>, "none", <<>>)
CallerSlug == <<"t", "m", "p">>

\* what a caller passes to new Event({...}); rest is whether description,
\* overview, image, venue, location, mode, audience, agenda, organizer and
\* tags pass their validators
Draft(t, s, d, tm, r) == [title |-> t, slug |-> s, date |-> d, time |-> tm, rest |-> r]

\* titles with the same slug base
SameBaseTitles == {TitleLower, TitleUpper}

\* drafts that pass validation and the hook
GoodDrafts ==
  {Draft(t, CallerSlug, "2025-03-04T10:00:00Z", Time930AM, TRUE) : t \in Titles}

SameBaseDrafts == {dr \in GoodDrafts : dr.title \in SameBaseTitles}

\* the Events that Bookings refer to
BookedDrafts == {dr \in GoodDrafts : dr.title = TitleLower}

Drafts ==
  GoodDrafts
  \cup {Draft(TitleLower, <<>>, "2025-03-04", Time2105, TRUE),
        Draft(TitleLower, CallerSlug, "not-a-date", Time2105, TRUE),
        Draft(TitleLower, CallerSlug, "2025-03-04", Time25, TRUE),
        Draft(<<>>, CallerSlug, "2025-03-04", Time2105, TRUE),
        Draft(TitleLower, CallerSlug, "2025-03-04", Time2105, FALSE)}

(* The time values of the time specification: every combination of the
   parts below.  A part that breaks the accepted shape has value -1 (hour,
   minute) or meridiem "bad". *)
TwoDigits(n) == <<DigitChars[(n \div 10) + 1], DigitChars[(n % 10) + 1]>>

HourParts ==
  {[h |-> <<DigitChars[n + 1]>>, hv |-> n] : n \in 0..9}
  \cup {[h |-> TwoDigits(n), hv |-> n] : n \in {0, 9, 10, 11, 12, 13, 19, 21, 23, 24, 99}}
  \cup {[h |-> <<>>, hv |-> -1], [h |-> <<"1", "2", "3">>, hv |-> -1]}

MinuteParts ==
  {[m |-> <<>>, mv |-> 0]}
  \cup {[m |-> <<sep>> \o TwoDigits(n), mv |-> n] :
          sep \in {":", "."}, n \in {0, 5, 30, 59, 60, 99}}
  \cup {[m |-> x, mv |-> -1] :
          x \in {<<":", "5">>, <<"-", "3", "0">>, <<":", "3", "0", "0">>, <<":">>}}

SuffixParts ==
  {[s |-> <<>>, mer |-> "none"]}
  \cup {[s |-> x, mer |-> "am"] : x \in {<<"A", "M">>, <<" ", "A", "M">>, <<"a", "m">>}}
  \cup {[s |-> x, mer |-> "pm"] :
          x \in {<<"P", "M">>, <<" ", "p", "m">>, <<" ", "\t", "P", "m">>}}
  \cup {[s |-> x, mer |-> "bad"] :
          x \in {<<" ", "X", "M">>, <<"A">>, <<" ", "A", "M", "M">>}}

PadParts == {[pre |-> <<>>, post |-> <<>>], [pre |-> <<" ">>, post |-> <<" ", "\n">>]}

TimeArgs ==
  {TimeArg(pd.pre, hp.h, hp.hv, mp.m, mp.mv, sp.s, sp.mer, pd.post) :
     pd \in PadParts, hp \in HourParts, mp \in MinuteParts, sp \in SuffixParts}

\* Date.now() readings
ClockValues == {17, 18}

NoDoc == [id |-> 0, title |-> <<>>, slug |-> <<>>, date |-> "", time |-> <<>>,
          rest |-> FALSE, isNew |-> FALSE, mod |-> {}]
NoErr == [name |-> "", paths |-> {}]
Failure(n) == [name |-> n, paths |-> {}]

(* --------------------------- Event schema ----------------------------- *)
\* nonEmptyString.validator
nonEmptyString(v) == Len(trim(v)) > 0

\* The paths of d that fail the schema's validators (required, validate).
InvalidPaths(d) ==
  {f \in {"title"} : d.title = <<>> \/ ~nonEmptyString(d.title)}
  \cup {f \in {"slug"} : d.slug = <<>>}
  \cup {f \in {"date"} : d.date = ""}
  \cup {f \in {"time"} : d.time = <<>> \/ ~nonEmptyString(d.time)}
  \cup {f \in {"rest"} : ~d.rest}

\* the unique index on slug: no other persisted Event holds this slug
UniqueSlug_Off(slug, id) == TRUE

UniqueSlug(slug, id) ==
  \A j \in DOMAIN events \ {id} : events[j].slug # slug

\* Model.countDocuments({slug: candidate, _id: {$ne: doc._id}})
countDocuments_Self(slug, id) ==
  Cardinality({j \in DOMAIN events : events[j].slug = slug})

countDocuments(slug, id) ==
  Cardinality({j \in DOMAIN events : events[j].slug = slug /\ j # id})

\* doc.isModified("title")
isModifiedTitle_Always(d) == TRUE

isModifiedTitle(d) == "title" \in d.mod

\* `${base}-${i}`
Suffixed(b, n) == b \o <<"-">> \o NumToStr(n)

\* doc.field = value, with Mongoose's change tracking: the path is marked
\* modified only when the value differs
Assign(d, f, v) ==
  IF d[f] = v THEN d ELSE [d EXCEPT ![f] = v, !.mod = @ \cup {f}]

(* ------------------------- Event operations --------------------------- *)
\* the document new Event(draft) makes: every supplied path is modified
Constructed(id, dr) ==
  [id |-> id, title |-> dr.title, slug |-> dr.slug, date |-> dr.date,
   time |-> RawTime(dr.time), rest |-> dr.rest, isNew |-> TRUE,
   mod |-> {f \in {"title"} : dr.title # <<>>}
           \cup {f \in {"slug"} : dr.slug # <<>>}
           \cup {f \in {"date"} : dr.date # ""}
           \cup {f \in {"time"} : RawTime(dr.time) # <<>>}]

\* new Event(draft), with a fresh _id
NewEvent(p, dr) ==
  /\ epc[p] \in {"none", "idle"}
  /\ nextId <= MaxDocs
  /\ doc' = [doc EXCEPT ![p] = Constructed(nextId, dr)]
  /\ timeIn' = [timeIn EXCEPT ![p] = dr.time]
  /\ nextId' = nextId + 1
  /\ epc' = [epc EXCEPT ![p] = "idle"]
  /\ err' = [err EXCEPT ![p] = NoErr]
  /\ UNCHANGED <<events, ops, base, candidate, i>>
  /\ UNCHANGED bvars /\ UNCHANGED cvars

\* Event.findById(id): a persisted Event read into memory, nothing modified
LoadEvent(p, id) ==
  /\ epc[p] \in {"none", "idle"}
  /\ ops < MaxOps
  /\ id \in DOMAIN events
  /\ doc' = [doc EXCEPT ![p] =
       [id |-> id, title |-> events[id].title, slug |-> events[id].slug,
        date |-> events[id].date, time |-> events[id].time, rest |-> TRUE,
        isNew |-> FALSE, mod |-> {}]]
  /\ timeIn' = [timeIn EXCEPT ![p] = NoTimeArg]
  /\ ops' = ops + 1
  /\ epc' = [epc EXCEPT ![p] = "idle"]
  /\ err' = [err EXCEPT ![p] = NoErr]
  /\ UNCHANGED <<events, nextId, base, candidate, i>>
  /\ UNCHANGED bvars /\ UNCHANGED cvars

\* doc.title = t
SetTitle(p, t) ==
  /\ epc[p] = "idle"
  /\ ops < MaxOps
  /\ doc' = [doc EXCEPT ![p] = Assign(@, "title", t)]
  /\ ops' = ops + 1
  /\ UNCHANGED <<events, nextId, epc, base, candidate, i, err, timeIn>>
  /\ UNCHANGED bvars /\ UNCHANGED cvars

\* Event.deleteOne({_id: id})
DeleteEvent(id) ==
  /\ ops < MaxOps
  /\ id \in DOMAIN events
  /\ events' = [j \in DOMAIN events \ {id} |-> events[j]]
  /\ ops' = ops + 1
  /\ UNCHANGED <<nextId, doc, epc, base, candidate, i, err, timeIn>>
  /\ UNCHANGED bvars /\ UNCHANGED cvars

\* The hook from its date block to its end, on document d (the slug block
\* is behind it): the document and error it leaves, ok when it returns.
HookDateTime(d) ==
  IF "date" \in d.mod /\ ParseDate(d.date) = ""
  THEN [ok |-> FALSE, doc |-> d, err |-> Failure("Invalid date format")]
  ELSE LET d1 == IF "date" \in d.mod THEN Assign(d, "date", ParseDate(d.date)) ELSE d
           nt == NormalizeTime(d1.time)
       IN IF "time" \in d1.mod /\ ~nt.ok
          THEN [ok |-> FALSE, doc |-> d1, err |-> Failure("Invalid time format")]
          ELSE [ok |-> TRUE,
                doc |-> IF "time" \in d1.mod THEN Assign(d1, "time", nt.value) ELSE d1,
                err |-> NoErr]

\* the hook returns or throws: save() goes on to the write, or rejects
HookEnd(p, d) ==
  LET r == HookDateTime(d)
  IN /\ doc' = [doc EXCEPT ![p] = r.doc]
     /\ err' = [err EXCEPT ![p] = r.err]
     /\ epc' = [epc EXCEPT ![p] = IF r.ok THEN "write" ELSE "idle"]
     /\ base' = [base EXCEPT ![p] = <<>>]
     /\ candidate' = [candidate EXCEPT ![p] = <<>>]
     /\ i' = [i EXCEPT ![p] = 0]

\* The hook up to its first await: the slug block entered (base, candidate,
\* i = 0, the first countDocuments sent) or skipped.
HookStart(p, now) ==
  IF isModifiedTitle(doc[p])
  THEN /\ base' = [base EXCEPT ![p] = slugify(doc[p].title)]
       /\ candidate' = [candidate EXCEPT ![p] =
            IF slugify(doc[p].title) # <<>> THEN slugify(doc[p].title)
            ELSE NumToStr(now)]
       /\ i' = [i EXCEPT ![p] = 0]
       /\ epc' = [epc EXCEPT ![p] = "count"]
       /\ err' = [err EXCEPT ![p] = NoErr]
       /\ UNCHANGED doc
  ELSE HookEnd(p, doc[p])

\* save() rejects with the ValidationError of the failing paths
ValidationFails(p) ==
  /\ err' = [err EXCEPT ![p] = [name |-> "ValidationError", paths |-> InvalidPaths(doc[p])]]
  /\ UNCHANGED <<doc, epc, base, candidate, i>>

\* doc.save() up to the hook's first await.  Mongoose's validation is the
\* first pre-save step, the schema's own pre("save") hook runs after it.
SaveOrder(p, now) ==
  IF InvalidPaths(doc[p]) # {} THEN ValidationFails(p) ELSE HookStart(p, now)

SaveStart(p) ==
  /\ epc[p] = "idle"
  /\ \E now \in ClockValues : SaveOrder(p, now)
  /\ UNCHANGED <<events, nextId, ops, timeIn>>
  /\ UNCHANGED bvars /\ UNCHANGED cvars

\* One round of the slug loop: countDocuments answers; on a conflict the
\* next candidate is sent, otherwise the slug is adopted and the hook runs
\* on to its end.
HookCount(p) ==
  /\ epc[p] = "count"
  /\ IF countDocuments(candidate[p], doc[p].id) # 0
     THEN /\ i' = [i EXCEPT ![p] = @ + 1]
          /\ candidate' = [candidate EXCEPT ![p] = Suffixed(base[p], i[p] + 1)]
          /\ UNCHANGED <<doc, epc, base, err>>
     ELSE HookEnd(p, Assign(doc[p], "slug", candidate[p]))
  /\ UNCHANGED <<events, nextId, ops, timeIn>>
  /\ UNCHANGED bvars /\ UNCHANGED cvars

Persisted(d) == [title |-> d.title, slug |-> d.slug, date |-> d.date, time |-> d.time]

\* The write save() sends after the hooks: insertOne for a new document,
\* updateOne of the modified paths otherwise; the unique index on slug
\* rejects a duplicate (E11000).
Write(p) ==
  /\ epc[p] = "write"
  /\ LET d == doc[p]
     IN IF d.isNew
        THEN IF UniqueSlug(d.slug, d.id)
             THEN /\ events' = [j \in DOMAIN events \cup {d.id} |->
                                  IF j = d.id THEN Persisted(d) ELSE events[j]]
                  /\ doc' = [doc EXCEPT ![p] = [d EXCEPT !.isNew = FALSE, !.mod = {}]]
                  /\ err' = [err EXCEPT ![p] = NoErr]
             ELSE /\ err' = [err EXCEPT ![p] = Failure("E11000 duplicate key")]
                  /\ UNCHANGED <<events, doc>>
        ELSE IF d.mod \cap {"title", "slug", "date", "time"} = {}
             THEN /\ doc' = [doc EXCEPT ![p] = [d EXCEPT !.mod = {}]]
                  /\ err' = [err EXCEPT ![p] = NoErr]
                  /\ UNCHANGED events
        ELSE IF d.id \notin DOMAIN events
             THEN /\ err' = [err EXCEPT ![p] = Failure("DocumentNotFoundError")]
                  /\ UNCHANGED <<events, doc>>
        ELSE IF "slug" \in d.mod /\ ~UniqueSlug(d.slug, d.id)
             THEN /\ err' = [err EXCEPT ![p] = Failure("E11000 duplicate key")]
                  /\ UNCHANGED <<events, doc>>
        ELSE /\ events' = [events EXCEPT ![d.id] =
                  [title |-> IF "title" \in d.mod THEN d.title ELSE @.title,
                   slug |-> IF "slug" \in d.mod THEN d.slug ELSE @.slug,
                   date |-> IF "date" \in d.mod THEN d.date ELSE @.date,
                   time |-> IF "time" \in d.mod THEN d.time ELSE @.time]]
             /\ doc' = [doc EXCEPT ![p] = [d EXCEPT !.mod = {}]]
             /\ err' = [err EXCEPT ![p] = NoErr]
  /\ epc' = [epc EXCEPT ![p] = "idle"]
  /\ UNCHANGED <<nextId, ops, base, candidate, i, timeIn>>
  /\ UNCHANGED bvars /\ UNCHANGED cvars

(* ------------------------------ Booking ------------------------------- *)
EmailGood == <<"a", "@", "b", ".", "c">>
EmailNoDot == <<"a", "@", "b">>
Emails == {EmailGood, EmailNoDot}

\* emailRegex.test(s): /^[^\s@]+@[^\s@]+\.[^\s@]+$/
emailRegex(s) ==
  \E at \in 1..Len(s), dot \in 1..Len(s) :
    /\ s[at] = "@" /\ s[dot] = "."
    /\ 1 < at /\ at + 1 < dot /\ dot < Len(s)
    /\ \A k \in 1..Len(s) : s[k] \notin WhiteSpace /\ (s[k] = "@" => k = at)

\* an eventId value that is no ObjectId
BadId == 0
\* the eventId values callers pass: BadId and the ObjectIds Events can get
EventRefs == 0..MaxDocs

\* Types.ObjectId.isValid(String(doc.eventId))
ObjectIdIsValid(x) == x # BadId

\* Event.exists({_id: id})
EventExists_Always(id) == TRUE

EventExists(id) == id \in DOMAIN events

NoBooking == [id |-> 0, eventId |-> BadId, email |-> <<>>, isNew |-> FALSE]

\* new Booking({eventId, email})
NewBooking(b, eid, em) ==
  /\ bpc[b] \in {"none", "idle"}
  /\ nextBid <= MaxBookings
  /\ bdoc' = [bdoc EXCEPT ![b] = [id |-> nextBid, eventId |-> eid, email |-> em, isNew |-> TRUE]]
  /\ nextBid' = nextBid + 1
  /\ bpc' = [bpc EXCEPT ![b] = "idle"]
  /\ berr' = [berr EXCEPT ![b] = ""]
  /\ exists' = [exists EXCEPT ![b] = FALSE]
  /\ UNCHANGED bookings
  /\ UNCHANGED evars /\ UNCHANGED cvars

\* booking.save() up to the hook's await: schema validation (email), then
\* the hook's ObjectId check, then Event.exists is sent
BookingSaveStart(b) ==
  /\ bpc[b] = "idle"
  /\ exists' = [exists EXCEPT ![b] = FALSE]
  /\ IF bdoc[b].email = <<>> \/ ~emailRegex(bdoc[b].email)
     THEN /\ berr' = [berr EXCEPT ![b] = "ValidationError"]
          /\ UNCHANGED bpc
     ELSE IF ~ObjectIdIsValid(bdoc[b].eventId)
     THEN /\ berr' = [berr EXCEPT ![b] = "Invalid eventId"]
          /\ UNCHANGED bpc
     ELSE /\ berr' = [berr EXCEPT ![b] = ""]
          /\ bpc' = [bpc EXCEPT ![b] = "exists"]
  /\ UNCHANGED <<bookings, nextBid, bdoc>>
  /\ UNCHANGED evars /\ UNCHANGED cvars

\* Event.exists answers: the hook throws or returns
BookingExists(b) ==
  /\ bpc[b] = "exists"
  /\ exists' = [exists EXCEPT ![b] = EventExists(bdoc[b].eventId)]
  /\ IF ~EventExists(bdoc[b].eventId)
     THEN /\ berr' = [berr EXCEPT ![b] = "Referenced event does not exist"]
          /\ bpc' = [bpc EXCEPT ![b] = "idle"]
     ELSE /\ bpc' = [bpc EXCEPT ![b] = "write"]
          /\ UNCHANGED berr
  /\ UNCHANGED <<bookings, nextBid, bdoc>>
  /\ UNCHANGED evars /\ UNCHANGED cvars

\* the write save() sends after the hook: insertOne for a new Booking; a
\* persisted, unmodified Booking has nothing to write
BookingWrite(b) ==
  /\ bpc[b] = "write"
  /\ bookings' = IF bdoc[b].isNew
                 THEN bookings \cup {[id |-> bdoc[b].id, eventId |-> bdoc[b].eventId,
                                      email |-> bdoc[b].email]}
                 ELSE bookings
  /\ bdoc' = [bdoc EXCEPT ![b].isNew = FALSE]
  /\ bpc' = [bpc EXCEPT ![b] = "idle"]
  /\ UNCHANGED <<nextBid, exists, berr>>
  /\ UNCHANGED evars /\ UNCHANGED cvars

(* -------------------------- connection cache -------------------------- *)
\* cache.promise: null, or a promise pending, fulfilled with a handle, or
\* rejected.  A handle is the number of the connect attempt that made it.
NoPromise == [state |-> "null", value |-> 0]

\* if (cache.promise)
InFlight_Never == FALSE

InFlight == promise.state # "null"

\* connectToDatabase() up to its first await or its return
connectToDatabase(c) ==
  /\ cpc[c] \in {"idle", "returned", "thrown"}
  /\ calls < MaxCalls
  /\ calls' = calls + 1
  /\ IF conn # 0
     THEN /\ cres' = [cres EXCEPT ![c] = conn]
          /\ cpc' = [cpc EXCEPT ![c] = "returned"]
          /\ UNCHANGED <<conn, promise, attempts>>
     ELSE IF InFlight
     THEN /\ cpc' = [cpc EXCEPT ![c] = "await"]
          /\ cres' = [cres EXCEPT ![c] = 0]
          /\ UNCHANGED <<conn, promise, attempts>>
     ELSE /\ attempts' = attempts + 1
          /\ promise' = [state |-> "pending", value |-> attempts + 1]
          /\ cpc' = [cpc EXCEPT ![c] = "await"]
          /\ cres' = [cres EXCEPT ![c] = 0]
          /\ UNCHANGED conn
  /\ UNCHANGED evars /\ UNCHANGED bvars

\* mongoose.connect resolves: the .then callback stores the handle
ConnectResolves ==
  /\ promise.state = "pending"
  /\ conn' = promise.value
  /\ promise' = [promise EXCEPT !.state = "fulfilled"]
  /\ UNCHANGED <<attempts, cpc, cres, calls>>
  /\ UNCHANGED evars /\ UNCHANGED bvars

\* mongoose.connect rejects: nothing handles it, cache.promise stays
ConnectRejects ==
  /\ promise.state = "pending"
  /\ promise' = [promise EXCEPT !.state = "rejected"]
  /\ UNCHANGED <<conn, attempts, cpc, cres, calls>>
  /\ UNCHANGED evars /\ UNCHANGED bvars

\* `await cache.promise` resumes a caller: it returns the handle or throws
AwaitPromise(c) ==
  /\ cpc[c] = "await"
  /\ promise.state \in {"fulfilled", "rejected"}
  /\ IF promise.state = "fulfilled"
     THEN /\ cres' = [cres EXCEPT ![c] = promise.value]
          /\ cpc' = [cpc EXCEPT ![c] = "returned"]
     ELSE /\ cpc' = [cpc EXCEPT ![c] = "thrown"]
          /\ UNCHANGED cres
  /\ UNCHANGED <<conn, promise, attempts, calls>>
  /\ UNCHANGED evars /\ UNCHANGED bvars

(* --------------------------- specifications --------------------------- *)
InitEvents ==
  /\ events = <<>>
  /\ nextId = 1
  /\ ops = 0
  /\ doc = [p \in EProcs |-> NoDoc]
  /\ epc = [p \in EProcs |-> "none"]
  /\ base = [p \in EProcs |-> <<>>]
  /\ candidate = [p \in EProcs |-> <<>>]
  /\ i = [p \in EProcs |-> 0]
  /\ err = [p \in EProcs |-> NoErr]
  /\ timeIn = [p \in EProcs |-> NoTimeArg]

InitBookings ==
  /\ bookings = {}
  /\ nextBid = 1
  /\ bdoc = [b \in BProcs |-> NoBooking]
  /\ bpc = [b \in BProcs |-> "none"]
  /\ exists = [b \in BProcs |-> FALSE]
  /\ berr = [b \in BProcs |-> ""]

InitCache ==
  /\ conn = 0
  /\ promise = NoPromise
  /\ attempts = 0
  /\ cpc = [c \in Callers |-> "idle"]
  /\ cres = [c \in Callers |-> 0]
  /\ calls = 0

Init == InitEvents /\ InitBookings /\ InitCache

\* Event callers whose saves interleave at every await, on titles that
\* share one base
Next ==
  \/ \E p \in EProcs, dr \in SameBaseDrafts : NewEvent(p, dr)
  \/ \E p \in EProcs, id \in DOMAIN events : LoadEvent(p, id)
  \/ \E p \in EProcs, t \in SameBaseTitles : SetTitle(p, t)
  \/ \E id \in DOMAIN events : DeleteEvent(id)
  \/ \E p \in EProcs : SaveStart(p)
  \/ \E p \in EProcs : HookCount(p)
  \/ \E p \in EProcs : Write(p)

Spec == Init /\ [][Next]_vars

\* One Event caller, so one operation at a time, on every draft and title
NextSeq ==
  \/ \E dr \in Drafts : NewEvent("e1", dr)
  \/ \E id \in DOMAIN events : LoadEvent("e1", id)
  \/ \E t \in Titles : SetTitle("e1", t)
  \/ \E id \in DOMAIN events : epc["e1"] \in {"none", "idle"} /\ DeleteEvent(id)
  \/ SaveStart("e1")
  \/ HookCount("e1")
  \/ Write("e1")

SpecSeq == Init /\ [][NextSeq]_vars

\* One Event constructed with any of the time values, then saved
InitTime ==
  /\ InitBookings /\ InitCache
  /\ events = <<>>
  /\ nextId = 2
  /\ ops = 0
  /\ \E ta \in TimeArgs :
       /\ doc = [p \in EProcs |->
            IF p = "e1"
            THEN Constructed(1, Draft(TitleLower, CallerSlug, "2025-03-04", ta, TRUE))
            ELSE NoDoc]
       /\ timeIn = [p \in EProcs |-> IF p = "e1" THEN ta ELSE NoTimeArg]
  /\ epc = [p \in EProcs |-> IF p = "e1" THEN "idle" ELSE "none"]
  /\ base = [p \in EProcs |-> <<>>]
  /\ candidate = [p \in EProcs |-> <<>>]
  /\ i = [p \in EProcs |-> 0]
  /\ err = [p \in EProcs |-> NoErr]

NextTime == SaveStart("e1") \/ HookCount("e1") \/ Write("e1")

SpecTime == InitTime /\ [][NextTime]_vars

\* Booking callers whose saves interleave with Events being saved and deleted
NextBooking ==
  \/ \E dr \in BookedDrafts : NewEvent("e1", dr)
  \/ SaveStart("e1")
  \/ HookCount("e1")
  \/ Write("e1")
  \/ \E id \in DOMAIN events : DeleteEvent(id)
  \/ \E b \in BProcs, eid \in EventRefs, em \in Emails : NewBooking(b, eid, em)
  \/ \E b \in BProcs : BookingSaveStart(b)
  \/ \E b \in BProcs : BookingExists(b)
  \/ \E b \in BProcs : BookingWrite(b)

SpecBooking == Init /\ [][NextBooking]_vars

\* connectToDatabase() callers and the connect attempt's outcome
NextCache ==
  \/ \E c \in Callers : connectToDatabase(c)
  \/ ConnectResolves
  \/ ConnectRejects
  \/ \E c \in Callers : AwaitPromise(c)

SpecCache == Init /\ [][NextCache]_vars

(* ------------------------------- claims ------------------------------- *)

\* C1: when the connect succeeds there has been exactly one connection
\* attempt, however many calls were made and however they interleaved, and
\* every call that returned holds the one cached handle.
C1_OneAttemptOneHandle ==
  /\ conn # 0 => attempts = 1
  /\ \A c \in Callers : cpc[c] = "returned" => cres[c] = conn /\ conn # 0

\* Every caller has returned the handle of the only attempt, and one of
\* them called again after the handle was cached.
C1_Witness ==
  /\ \A c \in Callers : cpc[c] = "returned" /\ cres[c] = 1
  /\ attempts = 1
  /\ calls > Cardinality(Callers)

\* C2: a call made after the in-flight attempt failed starts a new
\* connection attempt (the failure cleared cache.promise).
C2_RetryAfterFailure ==
  [][\A c \in Callers :
       (promise.state = "rejected" /\ cpc[c] # "await" /\ calls' = calls + 1
        /\ cpc'[c] # cpc[c])
       => attempts' = attempts + 1]_vars

\* C3: no two persisted Events have the same slug, whatever the
\* interleaving of the saves' lookups and writes.
C3_SlugsUnique ==
  \A a \in DOMAIN events, b \in DOMAIN events :
    a # b => events[a].slug # events[b].slug

\* A save that raced past the counter loop was rejected by the unique index
\* while another Event holds the slug it adopted.
C3_Witness ==
  \E p \in EProcs :
    /\ err[p].name = "E11000 duplicate key"
    /\ \E a \in DOMAIN events : a # doc[p].id /\ events[a].slug = doc[p].slug

\* the slugs persisted Events other than id hold
OtherSlugs(id) == {events[j].slug : j \in DOMAIN events \ {id}}

\* the candidates of the sequence base, base-1, base-2, ...
Cand(b, k) == IF k = 0 THEN b ELSE b \o <<"-">> \o NumToStr(k)

\* C4: with one save at a time and a non-empty base, the slug a save with a
\* changed title adopts is the first of base, base-1, base-2, ... that no
\* other persisted Event holds; the loop has passed only candidates that
\* other Events hold, so it ends within as many rounds as there are Events.
C4_FirstFreeCandidate ==
  \A p \in EProcs :
    LET b == slugify(doc[p].title)
        others == OtherSlugs(doc[p].id)
    IN /\ epc[p] = "count" /\ b # <<>> =>
            /\ candidate[p] = Cand(b, i[p])
            /\ \A k \in 0..(i[p] - 1) : Cand(b, k) \in others
            /\ i[p] <= Cardinality(others)
       /\ epc[p] = "write" /\ "title" \in doc[p].mod /\ b # <<>> =>
            \E k \in 0..Cardinality(others) :
              /\ doc[p].slug = Cand(b, k)
              /\ Cand(b, k) \notin others
              /\ \A j \in 0..(k - 1) : Cand(b, j) \in others

\* Two Events with the same title are persisted, with slugs base and base-1.
C4_Witness ==
  \E a \in DOMAIN events, b \in DOMAIN events :
    /\ a # b
    /\ events[a].title = events[b].title
    /\ events[a].slug = slugify(events[a].title)
    /\ events[a].slug # <<>>
    /\ events[b].slug = events[a].slug \o <<"-", "1">>

\* lowercase letters, digits and hyphens only, no hyphen first or last, no
\* two hyphens in a row
CleanSlug(s) ==
  /\ \A k \in 1..Len(s) : s[k] \in LowerSet \cup DigitSet \cup {"-"}
  /\ s # <<>> => s[1] # "-" /\ s[Len(s)] # "-"
  /\ \A k \in 1..(Len(s) - 1) : ~(s[k] = "-" /\ s[k + 1] = "-")

\* C5: every slug the hook assigns is made of lowercase letters, digits and
\* hyphens, with no leading, trailing or doubled hyphen.
C5_SlugsClean ==
  \A p \in EProcs : epc[p] = "write" => CleanSlug(doc[p].slug)

\* C6: a save of a persisted Event whose title is not modified changes its
\* slug neither in memory nor in the collection.
C6_SlugKeptWhenTitleKept ==
  [][\A p \in EProcs :
       (epc[p] # "none" /\ epc'[p] # epc[p] /\ ~doc[p].isNew
        /\ "title" \notin doc[p].mod)
       => /\ doc'[p].slug = doc[p].slug
          /\ (epc[p] = "write" /\ doc[p].id \in DOMAIN events)
               => events'[doc[p].id].slug = events[doc[p].id].slug]_vars

\* A persisted Event with an unmodified title is being re-saved while it
\* holds a suffixed slug and the unsuffixed one has become free.
C6_Witness ==
  \E p \in EProcs :
    /\ epc[p] = "write" /\ ~doc[p].isNew /\ "title" \notin doc[p].mod
    /\ doc[p].id \in DOMAIN events
    /\ doc[p].slug # slugify(doc[p].title)
    /\ slugify(doc[p].title) \notin OtherSlugs(doc[p].id)

\* the 24-hour hour the claim gives a time value of the accepted shape
Hour24(ta) ==
  IF ta.mer = "pm" /\ ta.hv < 12 THEN ta.hv + 12
  ELSE IF ta.mer = "am" /\ ta.hv = 12 THEN 0
  ELSE ta.hv

\* the time value has the accepted shape and is in range after conversion
TimeAccepted(ta) ==
  /\ ta.hv >= 0 /\ ta.mv >= 0 /\ ta.mer # "bad"
  /\ Hour24(ta) <= 23 /\ ta.mv <= 59

\* what C7 says of the state a save step leaves
TimeOutcome ==
  \A p \in EProcs :
    doc[p].id # 0 =>
      LET ta == timeIn[p]
          stored == TwoDigits(Hour24(ta)) \o <<":">> \o TwoDigits(ta.mv)
      IN IF TimeAccepted(ta)
         THEN /\ err[p] = NoErr
              /\ (epc[p] = "write" \/ ~doc[p].isNew) => doc[p].time = stored
              /\ doc[p].id \in DOMAIN events => events[doc[p].id].time = stored
         ELSE /\ epc[p] # "write"
              /\ doc[p].id \notin DOMAIN events

\* C7: a save stores the zero-padded 24-hour HH:MM of an accepted time
\* value; for any other it ends rejected with an error and persists
\* nothing.
C7_TimeNormalized ==
  [][/\ TimeOutcome'
     /\ \A p \in EProcs :
          (epc'[p] = "idle" /\ <<epc[p], err[p]>> # <<epc'[p], err'[p]>>
           /\ ~TimeAccepted(timeIn[p]))
          => err'[p] # NoErr]_vars

\* "9:30 AM" was saved and is stored as "09:30".
C7_Witness ==
  \E p \in EProcs :
    /\ timeIn[p] = Time930AM
    /\ doc[p].id \in DOMAIN events
    /\ events[doc[p].id].time = <<"0", "9", ":", "3", "0">>

\* C8: the hook's existence check lets a Booking save through exactly when
\* its eventId is that of a persisted Event; otherwise the save fails with
\* "Referenced event does not exist" and persists nothing.  A save that got
\* through persists the Booking; validation rejects only a malformed email,
\* the hook's first check only an eventId that is no identifier.
C8_ReferenceChecked ==
  [][\A b \in BProcs :
       /\ (bpc[b] = "exists" /\ bpc'[b] # "exists") =>
            IF bdoc[b].eventId \in DOMAIN events
            THEN bpc'[b] = "write" /\ berr'[b] = ""
            ELSE /\ bpc'[b] = "idle"
                 /\ berr'[b] = "Referenced event does not exist"
                 /\ bookings' = bookings
       /\ (bpc[b] = "write" /\ bpc'[b] = "idle") =>
            /\ berr'[b] = ""
            /\ \E bk \in bookings' :
                 bk.id = bdoc[b].id /\ bk.eventId = bdoc[b].eventId
       /\ berr'[b] = "ValidationError" => ~emailRegex(bdoc'[b].email)
       /\ berr'[b] = "Invalid eventId" => bdoc'[b].eventId = BadId]_vars

\* One Booking save failed on a missing Event and persisted nothing, and a
\* Booking of an existing Event is persisted.
C8_Witness ==
  /\ \E b \in BProcs :
       /\ berr[b] = "Referenced event does not exist"
       /\ bdoc[b].eventId # BadId
       /\ \A bk \in bookings : bk.id # bdoc[b].id
  /\ \E bk \in bookings : bk.eventId \in DOMAIN events

\* C9: a new Event with valid fields and no slug is not rejected for the
\* missing slug.
C9_NoSlugSaveAccepted ==
  \A p \in EProcs :
    ~(err[p].name = "ValidationError" /\ err[p].paths = {"slug"})

\* C10 as claimed: the Event a Booking references exists at the moment the
\* Booking is persisted.
C10_EventExistsAtInsert ==
  [][\A bk \in bookings' \ bookings : bk.eventId \in DOMAIN events']_vars

\* C10 as amended: a Booking is persisted only by a save whose existence
\* check found the Event at the moment of the check; deleting an Event
\* removes no Booking.
C10_EventExistedAtCheck ==
  [][/\ \A b \in BProcs :
          (bpc[b] = "exists" /\ bpc'[b] = "write")
          => bdoc[b].eventId \in DOMAIN events
     /\ \A bk \in bookings' \ bookings :
          \E b \in BProcs : bpc[b] = "write" /\ bdoc[b].id = bk.id /\ exists[b]
     /\ DOMAIN events' # DOMAIN events => bookings' = bookings]_vars

\* A persisted Booking references an Event that is no longer there.
C10_Witness ==
  \E bk \in bookings : bk.eventId \notin DOMAIN events

=============================================================================
